---- MODULE Spec2Model ----
(***************************************************************************)
(* Model of the agent execution runtime: the ToolRegistry                  *)
(* (core/tool-registry.ts), the two agent variants Agent and ClaudeAgent   *)
(* (core/agent.ts, core/claude-agent.ts) and the calls they make into the  *)
(* MemoryManager and the ClaudeProvider.                                   *)
(*                                                                         *)
(* A text (message content, error message) is a sequence of strings; the  *)
(* empty sequence is the empty string.                                     *)
(***************************************************************************)
EXTENDS Integers, Sequences, FiniteSets, TLC

VARIABLES
  tools,     \* ToolRegistry.tools : name -> Tool
  last,      \* the last call made on the registry and how it ended
  variant,   \* which class the agent is an instance of
  state,     \* the agent's AgentState
  memory,    \* the agent's MemoryManager
  proc,      \* the execute() calls: position, locals, settled promise
  turns,     \* number of execute() calls started so far
  requested, \* number of tool calls the reasoning step has asked for so far
  config,    \* the agent's AgentConfig: canSpawnSubagents, maxSubagents
  subagents, \* the agent's state.subagents : child id -> child state
  spawn,     \* the spawnSubagent calls: position, child, how they ended
  created,   \* number of child agents constructed so far
  llm,       \* the last ClaudeProvider.think call and what it produced
  thought,   \* an Agent.think call: its input and what it returned
  disk,      \* the file at the session's memory path
  loaded     \* the conversation history load() gave the current instance

vars == <<tools, last, variant, state, memory, proc, turns, requested,
          config, subagents, spawn, created, llm, thought, disk, loaded>>
regVars == <<tools, last>>
agentVars == <<variant, state, memory, proc, turns, requested>>
spawnVars == <<config, subagents, spawn, created>>
auxVars == <<thought, disk, loaded>>

(***************************************************************************)
(* Bounds                                                                  *)
(***************************************************************************)
MaxBatch == 2      \* longest array given to registerMultiple
MaxCalls == 2      \* tool calls the model's replies ask for over a run
MaxTurns == 2      \* execute() calls made on one agent
MaxSpawns == 3     \* child agents constructed by one agent
MaxSegments == 2   \* segments of a reply of the model

(***************************************************************************)
(* Sequence helpers                                                        *)
(***************************************************************************)
Range(s) == {s[i] : i \in 1..Len(s)}

SeqsUpTo(S, n) == UNION {[1..k -> S] : k \in 0..n}

\* Array.prototype.map(p => p.name)
Names(ps) == [i \in 1..Len(ps) |-> ps[i].name]

\* index of the first element satisfying P, 0 when there is none
FirstIndex(s, P(_)) ==
  IF \E i \in 1..Len(s) : P(s[i])
  THEN CHOOSE i \in 1..Len(s) : P(s[i]) /\ \A j \in 1..(i - 1) : ~P(s[j])
  ELSE 0

(***************************************************************************)
(* Tools, parameters, results                                              *)
(***************************************************************************)
\* the names and parameter names the registry is exercised with
ToolNames == {"calculator", "write_file"}
ParamNames == {"expression", "path", "content"}

\* a parameter value either passes or fails the parameter's Zod schema
ParamValues == {"good", "bad"}

Param(n, r, s) == [name |-> n, required |-> r, schema |-> s]

\* descriptors as the repository declares them (tools/utility-tools.ts,
\* tools/file-tools.ts)
CalculatorTool ==
  [description |-> "math", parameters |-> <<Param("expression", TRUE, TRUE)>>]
TimestampTool ==
  [description |-> "time", parameters |-> <<Param("format", FALSE, TRUE)>>]
WriteFileTool ==
  [description |-> "write",
   parameters |-> <<Param("path", TRUE, TRUE), Param("content", TRUE, TRUE)>>]
\* a descriptor whose parameters carry no schema and are all optional
PlainTool ==
  [description |-> "plain", parameters |-> <<Param("path", FALSE, FALSE)>>]
\* a descriptor with an optional validated parameter before a required one
MixedTool ==
  [description |-> "mixed",
   parameters |-> <<Param("path", FALSE, TRUE), Param("content", TRUE, FALSE)>>]

Descriptors == {CalculatorTool, WriteFileTool, PlainTool, MixedTool}

\* a Tool as handed to register(): a name and the rest of the descriptor
Tools == [name : ToolNames, desc : Descriptors]

\* the parameters argument of executeTool: a Record, or undefined when the
\* toolCalls entry decoded from the reply carries no parameters field
Given(f) == [present |-> TRUE, vals |-> f]
Absent == [present |-> FALSE, vals |-> <<>>]
Records(names) == UNION {[S -> ParamValues] : S \in SUBSET names}

\* ToolResult values a capability returns
Success == [success |-> TRUE, data |-> <<"data">>]
Failure == [success |-> FALSE, error |-> <<"tool failed">>]

\* what awaiting tool.execute(parameters) produces: a returned ToolResult,
\* or a thrown value: an Error with a message (possibly empty) or a value
\* that is not an object (throw undefined / Promise.reject())
Returns(r) == [kind |-> "return", value |-> r, isObject |-> TRUE, message |-> <<>>]
Throws(m) == [kind |-> "throw", value |-> [none |-> TRUE], isObject |-> TRUE, message |-> m]
ThrowsNullish == [kind |-> "throw", value |-> [none |-> TRUE], isObject |-> FALSE, message |-> <<>>]

ToolOutcomes ==
  {Returns(Success), Returns(Failure), Throws(<<"boom">>), Throws(<<>>), ThrowsNullish}

\* the TypeError raised by `x in undefined` and by `undefined.message`
TypeError == <<"TypeError">>
ZodError == <<"ZodError">>

(***************************************************************************)
(* ToolRegistry                                                            *)
(***************************************************************************)
hasTool(ts, name) == name \in DOMAIN ts

\* Map.prototype.set
MapSet(m, k, v) == [x \in DOMAIN m \cup {k} |-> IF x = k THEN v ELSE m[x]]

\* Map.prototype.delete
MapDelete(m, k) == [x \in DOMAIN m \ {k} |-> m[x]]

\* register(tool): the registry afterwards and whether the call threw
registerOverwrites(ts, tool) ==
  [threw |-> FALSE, tools |-> MapSet(ts, tool.name, tool.desc)]

register(ts, tool) ==
  IF hasTool(ts, tool.name)
  THEN [threw |-> TRUE, tools |-> ts]
  ELSE [threw |-> FALSE, tools |-> MapSet(ts, tool.name, tool.desc)]

\* registerMultiple(tools): forEach(register); the first throw ends the loop
\* and leaves the tools registered before it in place
RECURSIVE registerMultiple(_, _)
registerMultiple(ts, batch) ==
  IF batch = <<>>
  THEN [threw |-> FALSE, tools |-> ts]
  ELSE LET r == register(ts, Head(batch))
       IN IF r.threw THEN r ELSE registerMultiple(r.tools, Tail(batch))

\* unregister(name): Map.delete, true when the name was present
unregister(ts, name) == [removed |-> hasTool(ts, name), tools |-> MapDelete(ts, name)]

NotFound(toolName) == [success |-> FALSE, error |-> <<"Tool", toolName, "not found">>]
MissingRequired(missing) ==
  [success |-> FALSE, error |-> <<"Missing required parameters:">> \o missing]
InvalidParameter(name) ==
  [success |-> FALSE, error |-> <<"Invalid parameter", name>> \o ZodError]
NoResult == [none |-> TRUE]

\* the names of the required parameters that are not `in` parameters
missingFirstOnly(tool, vals) ==
  LET m == Names(SelectSeq(tool.parameters,
                           LAMBDA p : p.required /\ p.name \notin DOMAIN vals))
  IN IF m = <<>> THEN m ELSE <<Head(m)>>

missingParams(tool, vals) ==
  Names(SelectSeq(tool.parameters,
                  LAMBDA p : p.required /\ p.name \notin DOMAIN vals))

\* the validation loop: the parameters whose schema.parse ran, in order, and
\* the index among them of the one that threw (0 when none did)
validateAll(tool, vals) ==
  LET checked == SelectSeq(tool.parameters,
                           LAMBDA p : p.schema /\ p.name \in DOMAIN vals)
      bads == SelectSeq(checked, LAMBDA p : vals[p.name] = "bad")
  IN [ran |-> Names(checked),
      invalid |-> IF bads = <<>> THEN <<>> ELSE <<bads[Len(bads)].name>>]

validate(tool, vals) ==
  LET checked == SelectSeq(tool.parameters,
                           LAMBDA p : p.schema /\ p.name \in DOMAIN vals)
      bad == FirstIndex(checked, LAMBDA p : vals[p.name] = "bad")
  IN [ran |-> IF bad = 0 THEN Names(checked) ELSE Names(SubSeq(checked, 1, bad)),
      invalid |-> IF bad = 0 THEN <<>> ELSE <<checked[bad].name>>]

Before(phase, result, ran) ==
  [phase |-> phase, result |-> result, validated |-> ran]

\* executeTool up to the call of tool.execute: lookup, required parameters,
\* validators.  phase is "resolved" (an early return), "rejected" (an
\* exception leaves executeTool) or "invoke" (tool.execute is called)
executeToolChecks(ts, toolName, parameters) ==
  IF ~hasTool(ts, toolName)
  THEN Before("resolved", NotFound(toolName), <<>>)
  ELSE LET tool == ts[toolName]
           ps == tool.parameters
       IN IF ~parameters.present
          THEN \* `p.name in undefined` throws where it is evaluated: in the
               \* filter after `p.required &&`, in the loop after `param.schema &&`
               IF \E i \in 1..Len(ps) : ps[i].required \/ ps[i].schema
               THEN Before("rejected", NoResult, <<>>)
               ELSE Before("invoke", NoResult, <<>>)
          ELSE LET missing == missingParams(tool, parameters.vals)
                   v == validate(tool, parameters.vals)
               IN IF Len(missing) > 0
                  THEN Before("resolved", MissingRequired(missing), <<>>)
                  ELSE IF v.invalid # <<>>
                       THEN Before("resolved", InvalidParameter(v.invalid[1]), v.ran)
                       ELSE Before("invoke", NoResult, v.ran)

\* the try/catch around `await tool.execute(parameters)`
settle(outcome) ==
  IF outcome.kind = "return"
  THEN [settled |-> "resolved", result |-> outcome.value]
  ELSE IF ~outcome.isObject
       THEN [settled |-> "rejected", result |-> NoResult]
       ELSE [settled |-> "resolved",
             result |-> [success |-> FALSE,
                         error |-> IF outcome.message # <<>>
                                   THEN outcome.message
                                   ELSE <<"Unknown error occurred">>]]

\* executeTool(toolName, parameters) when tool.execute, if reached, ends in
\* outcome: how the returned promise settles, with what, whether
\* tool.execute was called and which validators ran
executeTool(ts, toolName, parameters, outcome) ==
  LET b == executeToolChecks(ts, toolName, parameters)
  IN IF b.phase = "invoke"
     THEN [settled |-> settle(outcome).settled, result |-> settle(outcome).result,
           executed |-> TRUE, validated |-> b.validated]
     ELSE [settled |-> b.phase, result |-> b.result,
           executed |-> FALSE, validated |-> b.validated]

(***************************************************************************)
(* The registry's operations as steps                                      *)
(***************************************************************************)
Register ==
  \E tool \in Tools :
    LET r == register(tools, tool)
    IN /\ tools' = r.tools
       /\ last' = [op |-> "register", tool |-> tool, threw |-> r.threw]
       /\ UNCHANGED <<agentVars, spawnVars, llm, auxVars>>

RegisterMultiple ==
  \E batch \in SeqsUpTo(Tools, MaxBatch) :
    LET r == registerMultiple(tools, batch)
    IN /\ tools' = r.tools
       /\ last' = [op |-> "registerMultiple", size |-> Len(batch), threw |-> r.threw]
       /\ UNCHANGED <<agentVars, spawnVars, llm, auxVars>>

Unregister ==
  \E name \in ToolNames :
    LET r == unregister(tools, name)
    IN /\ tools' = r.tools
       /\ last' = [op |-> "unregister", name |-> name, removed |-> r.removed]
       /\ UNCHANGED <<agentVars, spawnVars, llm, auxVars>>

\* one awaited executeTool call made directly on the registry
ExecuteTool ==
  \E toolName \in ToolNames, parameters \in {Absent} \cup {Given(f) : f \in Records(ParamNames)},
     outcome \in ToolOutcomes :
    LET r == executeTool(tools, toolName, parameters, outcome)
    IN /\ last' = [op |-> "executeTool", toolName |-> toolName,
                   parameters |-> parameters,
                   outcome |-> IF r.executed THEN outcome ELSE Returns(NoResult),
                   settled |-> r.settled, result |-> r.result,
                   executed |-> r.executed, validated |-> r.validated]
       /\ UNCHANGED tools
       /\ UNCHANGED <<agentVars, spawnVars, llm, auxVars>>

(***************************************************************************)
(* Messages, MemoryManager, responses                                      *)
(***************************************************************************)
\* `new Date()`: a Date object; the clock is not modelled
Date == [type |-> "Date", instant |-> 0]

\* no file at the memory path
NoFile == [exists |-> FALSE]

\* load() has not been called on the current instance
NotLoaded == [done |-> FALSE, history |-> <<>>]

Message(role, content) == [role |-> role, content |-> content, timestamp |-> Date]

\* MemoryManager.addMessage: appends to the conversation history
addMessage(mem, msg) ==
  [mem EXCEPT !.conversationHistory = Append(@, msg)]

\* MemoryManager.set: last write wins
memorySet(mem, key, value) ==
  [mem EXCEPT !.workingMemory = MapSet(@, key, value)]

\* the template string `tool_result_${call.toolName}`
ResultKey(toolName) == <<"tool_result_", toolName>>

\* JSON.stringify(result, null, 2): the defined fields, in insertion order
Serialize(r) ==
  <<"success", IF r.success THEN "true" ELSE "false">>
  \o (IF "data" \in DOMAIN r THEN <<"data">> \o r.data ELSE <<>>)
  \o (IF "error" \in DOMAIN r THEN <<"error">> \o r.error ELSE <<>>)

ToolCall(toolName, parameters) == [toolName |-> toolName, parameters |-> parameters]

Response(message, toolCalls, nextAction) ==
  [message |-> message, toolCalls |-> toolCalls, nextAction |-> nextAction]

NoResponse == Response(<<>>, <<>>, "none")

\* configuration.tools of the agent under study
ConfigTools == <<"calculator", "get_timestamp">>

\* the registry the agent is constructed with
AgentRegistry ==
  [n \in {"calculator", "get_timestamp"} |->
     IF n = "calculator" THEN CalculatorTool ELSE TimestampTool]

(***************************************************************************)
(* Agent.think: the keyword rules of the deterministic variant.  An input *)
(* is a sequence of words separated by single spaces.                      *)
(***************************************************************************)
\* execute(undefined as any): toLowerCase is not a function of the input
NotAString == <<"<undefined>">>

\* word w contains keyword kw: lowerInput.includes(kw), one word at a time
Contains(w, kw) == w = kw \/ (w = "calculate" /\ kw = "calcul") \/ (w = "liste" /\ kw = "list")

includes(input, kw) == \E i \in 1..Len(input) : Contains(input[i], kw)

\* input.match(/kw\s+(.+)/i): the keyword ends a word that is followed by
\* whitespace and at least one character; the capture is the rest, trimmed
match(input, kws) ==
  LET hit(i) == input[i] \in kws /\ i < Len(input)
  IN IF \E i \in 1..Len(input) : hit(i)
     THEN LET i == CHOOSE k \in 1..Len(input) : hit(k) /\ \A j \in 1..(k - 1) : ~hit(j)
          IN [found |-> TRUE, rest |-> SubSeq(input, i + 1, Len(input))]
     ELSE [found |-> FALSE, rest |-> <<>>]

DefaultMessage(input) ==
  <<"I understand you want:">> \o input \o <<"Available tools:">> \o config.tools
  \o <<"Try asking me to calculate, list or get time">>

\* the rules in source order: the keywords tested, the capability called
Rules ==
  <<[keywords |-> {"calculate", "calcul"}, toolName |-> "calculator"],
    [keywords |-> {"read file", "lire"}, toolName |-> "read_file"],
    [keywords |-> {"list", "liste"}, toolName |-> "list_directory"],
    [keywords |-> {"time", "heure"}, toolName |-> "get_timestamp"]>>

thinkListFirst(input) ==
  IF includes(input, "list") \/ includes(input, "liste")
  THEN IF match(input, {"list", "liste"}).found
       THEN Response(<<"Listing directory contents...">>,
                     <<ToolCall("list_directory", Given([n \in {"path"} |-> "good"]))>>,
                     "complete")
       ELSE Response(<<>>, <<>>, "complete")
  ELSE IF includes(input, "calculate") \/ includes(input, "calcul")
  THEN IF match(input, {"calculate"}).found \/ match(input, {"calcul"}).found
       THEN Response(<<"Calculating the expression...">>,
                     <<ToolCall("calculator", Given([n \in {"expression"} |-> "good"]))>>,
                     "complete")
       ELSE Response(<<>>, <<>>, "complete")
  ELSE IF includes(input, "read file") \/ includes(input, "lire")
  THEN IF match(input, {"read file", "lire"}).found
       THEN Response(<<"Reading the file...">>,
                     <<ToolCall("read_file", Given([n \in {"path"} |-> "good"]))>>,
                     "complete")
       ELSE Response(<<>>, <<>>, "complete")
  ELSE IF includes(input, "time") \/ includes(input, "heure")
  THEN Response(<<"Getting current timestamp...">>,
                <<ToolCall("get_timestamp", Given([n \in {"format"} |-> "good"]))>>,
                "complete")
  ELSE Response(DefaultMessage(input), <<>>, "complete")

think(input) ==
  IF includes(input, "calculate") \/ includes(input, "calcul")
  THEN IF match(input, {"calculate"}).found \/ match(input, {"calcul"}).found
       THEN Response(<<"Calculating the expression...">>,
                     <<ToolCall("calculator", Given([n \in {"expression"} |-> "good"]))>>,
                     "complete")
       ELSE Response(<<>>, <<>>, "complete")
  ELSE IF includes(input, "read file") \/ includes(input, "lire")
  THEN IF match(input, {"read file", "lire"}).found
       THEN Response(<<"Reading the file...">>,
                     <<ToolCall("read_file", Given([n \in {"path"} |-> "good"]))>>,
                     "complete")
       ELSE Response(<<>>, <<>>, "complete")
  ELSE IF includes(input, "list") \/ includes(input, "liste")
  THEN IF match(input, {"list", "liste"}).found
       THEN Response(<<"Listing directory contents...">>,
                     <<ToolCall("list_directory", Given([n \in {"path"} |-> "good"]))>>,
                     "complete")
       ELSE Response(<<>>, <<>>, "complete")
  ELSE IF includes(input, "time") \/ includes(input, "heure")
  THEN Response(<<"Getting current timestamp...">>,
                <<ToolCall("get_timestamp", Given([n \in {"format"} |-> "good"]))>>,
                "complete")
  ELSE Response(DefaultMessage(input), <<>>, "complete")

\* ClaudeProvider.convertMessagesToClaude: system messages are dropped, a
\* user message stays a user message, every other role becomes assistant,
\* and only role and content are kept
convertMessagesToClaude(messages) ==
  LET kept == SelectSeq(messages, LAMBDA msg : msg.role # "system")
  IN [k \in 1..Len(kept) |->
        [role |-> IF kept[k].role = "user" THEN "user" ELSE "assistant",
         content |-> kept[k].content]]

\* ClaudeProvider.think, lines 77-84: the `messages` of the request
claudeMessagesHistoryOnly(messages, currentTask) ==
  convertMessagesToClaude(messages)

claudeMessages(messages, currentTask) ==
  Append(convertMessagesToClaude(messages), [role |-> "user", content |-> currentTask])

(***************************************************************************)
(* execute(): one record per call in flight.  A call is suspended at an    *)
(* await (pc "think", "tool", "summary") or has settled (pc "done").       *)
(***************************************************************************)
Procs == {1}

NoPending == Before("none", NoResult, <<>>)

\* no generateSummary call has been made in the turn
NoSummary == [kind |-> "none", decision |-> NoResponse]

Idle ==
  [pc |-> "idle", input |-> <<>>, response |-> NoResponse, i |-> 0,
   pending |-> NoPending, log |-> <<>>, settled |-> "none",
   returned |-> NoResponse, base |-> 0, error |-> <<>>,
   thrownBy |-> "none", decision |-> NoResponse, summary |-> NoSummary,
   handed |-> <<>>, thinks |-> 0, outbound |-> <<>>]

\* outcomes of tool.execute the agents are run against
AgentOutcomes ==
  {Returns(Success), Returns(Failure), Throws(<<"boom">>), ThrowsNullish}

\* toolCalls entries a reply of the model can decode to
ClaudeCalls ==
  {ToolCall("calculator", Given([n \in {"expression"} |-> "good"])),
   ToolCall("calculator", Absent),
   ToolCall("read_file", Given([n \in {"path"} |-> "good"]))}

DecisionNextActions == {"continue", "await_input", "spawn_subagent", "complete"}

\* the Decision ClaudeProvider.think returns from its catch block
ProviderFailure == [message |-> <<"Erreur Claude:", "timeout">>,
                    toolCalls |-> <<>>, nextAction |-> "complete"]

Decided(d) == [kind |-> "decision", decision |-> d]
Rejected == [kind |-> "reject", decision |-> NoResponse]

\* what awaiting claudeProvider.think produces in execute(): a Decision
\* asking for at most n tool calls, the Decision the provider makes of a
\* failure, or a rejection (execute() awaits the call inside its own try
\* block and does not rely on the provider containing its failures)
ThinkOutcomes(n) ==
  {Decided(Response(<<"plan">>, calls, na)) :
     calls \in SeqsUpTo(ClaudeCalls, n), na \in DecisionNextActions}
  \cup {Decided(ProviderFailure), Rejected}

\* the same for the call made by generateSummary
SummaryOutcomes ==
  {Decided(Response(<<"summary">>, <<>>, "complete")), Decided(ProviderFailure), Rejected}

\* executeTools reaching `await this.toolRegistry.executeTool(...)` for call i:
\* executeTool runs up to its own await of tool.execute
dispatch(pr, ts, i) ==
  LET call == pr.response.toolCalls[i]
      b == executeToolChecks(ts, call.toolName, call.parameters)
  IN [pr EXCEPT !.pc = "tool", !.i = i, !.pending = b,
                !.log = @ \o <<<<"start", i>>>>
                          \o (IF b.phase = "invoke" THEN <<<<"execute", i>>>> ELSE <<>>)]

\* the value `await executeTool(...)` produces for the call in flight
awaited(pr, outcome) ==
  IF pr.pending.phase = "invoke"
  THEN settle(outcome)
  ELSE [settled |-> pr.pending.phase, result |-> pr.pending.result]

\* the tool outcomes that can follow the pending call
OutcomesFor(pr) ==
  IF pr.pending.phase = "invoke" THEN AgentOutcomes ELSE {Returns(NoResult)}

\* `for (const call of toolCalls)`: whether another call follows call pr.i
hasNextUnlessFailed(pr, result) ==
  result.success /\ pr.i < Len(pr.response.toolCalls)

hasNext(pr, result) == pr.i < Len(pr.response.toolCalls)

\* the body of the for loop after the await: memory.set, tool message
recordResultKeepsFirst(st, mem, pr, result) ==
  LET call == pr.response.toolCalls[pr.i]
      toolMessage == Message("tool", Serialize(result))
      key == ResultKey(call.toolName)
  IN [state |-> [st EXCEPT !.messages = Append(@, toolMessage)],
      memory |-> addMessage(IF key \in DOMAIN mem.workingMemory THEN mem
                            ELSE memorySet(mem, key, result),
                            toolMessage),
      proc |-> [pr EXCEPT !.log = Append(@, <<"settle", pr.i, result>>)]]

recordResult(st, mem, pr, result) ==
  LET call == pr.response.toolCalls[pr.i]
      toolMessage == Message("tool", Serialize(result))
  IN [state |-> [st EXCEPT !.messages = Append(@, toolMessage)],
      memory |-> addMessage(memorySet(mem, ResultKey(call.toolName), result),
                            toolMessage),
      proc |-> [pr EXCEPT !.log = Append(@, <<"settle", pr.i, result>>)]]

\* Agent.execute, catch block
Agent_rethrow(st, pr, message) ==
  [state |-> st,
   proc |-> [pr EXCEPT !.pc = "done", !.settled = "rejected", !.error = message]]

Agent_catch(st, pr, message) ==
  [state |-> [st EXCEPT !.status = "error"],
   proc |-> [pr EXCEPT !.pc = "done", !.settled = "resolved", !.error = message,
                       !.returned = Response(<<"Error:">> \o message, <<>>, "complete")]]

\* ClaudeAgent.execute, catch block; the message starts with a cross mark
\* and the word Erreur
ClaudeAgent_catchKeepsStatus(st, pr, message) ==
  [state |-> st,
   proc |-> [pr EXCEPT !.pc = "done", !.settled = "resolved", !.error = message,
                       !.returned = Response(<<"Erreur:">> \o message, <<>>, "complete")]]

ClaudeAgent_catchStampsEnd(st, pr, message) ==
  [state |-> [st EXCEPT !.status = "error", !.endTime = turns],
   proc |-> [pr EXCEPT !.pc = "done", !.settled = "resolved", !.error = message,
                       !.returned = Response(<<"Erreur:">> \o message, <<>>, "complete")]]

ClaudeAgent_catch(st, pr, message) ==
  [state |-> [st EXCEPT !.status = "error"],
   proc |-> [pr EXCEPT !.pc = "done", !.settled = "resolved", !.error = message,
                       !.returned = Response(<<"Erreur:">> \o message, <<>>, "complete")]]

\* Agent.execute, lines 115-119
Agent_completeKeepsStatus(st, mem, pr, now) ==
  [state |-> [st EXCEPT !.endTime = now],
   memory |-> mem,
   proc |-> [pr EXCEPT !.pc = "done", !.settled = "resolved", !.returned = pr.response]]

Agent_complete(st, mem, pr, now) ==
  [state |-> [st EXCEPT !.status = "completed", !.endTime = now],
   memory |-> mem,
   proc |-> [pr EXCEPT !.pc = "done", !.settled = "resolved", !.returned = pr.response]]

\* ClaudeAgent.execute, lines 427-445
ClaudeAgent_completeAwaits(st, mem, pr, now) ==
  LET assistantMessage == Message("assistant", pr.response.message)
  IN [state |-> [st EXCEPT !.messages = Append(@, assistantMessage),
                           !.status = IF pr.response.nextAction = "await_input"
                                      THEN "waiting_for_input" ELSE "completed",
                           !.endTime = now],
      memory |-> addMessage(mem, assistantMessage),
      proc |-> [pr EXCEPT !.pc = "done", !.settled = "resolved",
                          !.returned = pr.response]]

ClaudeAgent_completeFlagsFailure(st, mem, pr, now) ==
  LET assistantMessage == Message("assistant", pr.response.message)
  IN [state |-> [st EXCEPT !.messages = Append(@, assistantMessage),
                           !.status = IF pr.response = ProviderFailure
                                      THEN "error" ELSE "completed",
                           !.endTime = now],
      memory |-> addMessage(mem, assistantMessage),
      proc |-> [pr EXCEPT !.pc = "done", !.settled = "resolved",
                          !.returned = pr.response]]

ClaudeAgent_completeHonoursNextAction(st, mem, pr, now) ==
  LET assistantMessage == Message("assistant", pr.response.message)
  IN [state |-> [st EXCEPT !.messages = Append(@, assistantMessage),
                           !.status = IF pr.response.nextAction = "complete"
                                      THEN "completed" ELSE "thinking",
                           !.endTime = now],
      memory |-> addMessage(mem, assistantMessage),
      proc |-> [pr EXCEPT !.pc = "done", !.settled = "resolved",
                          !.returned = pr.response]]

ClaudeAgent_complete(st, mem, pr, now) ==
  LET assistantMessage == Message("assistant", pr.response.message)
  IN [state |-> [st EXCEPT !.messages = Append(@, assistantMessage),
                           !.status = "completed", !.endTime = now],
      memory |-> addMessage(mem, assistantMessage),
      proc |-> [pr EXCEPT !.pc = "done", !.settled = "resolved",
                          !.returned = pr.response]]

(***************************************************************************)
(* Agent (deterministic variant)                                           *)
(***************************************************************************)
Installed(p, r) ==
  /\ state' = r.state
  /\ memory' = r.memory
  /\ proc' = [proc EXCEPT ![p] = r.proc]

\* execute() up to `await this.think(userInput)`
Agent_execute(p, userInput) ==
  LET userMessage == Message("user", userInput)
  IN /\ variant = "Agent"
     /\ proc[p].pc \in {"idle", "done"}
     /\ turns < MaxTurns
     /\ turns' = turns + 1
     /\ memory' = addMessage(memory, userMessage)
     /\ state' = [state EXCEPT !.messages = Append(@, userMessage),
                               !.status = "thinking",
                               !.currentTask = userInput]
     /\ proc' = [proc EXCEPT ![p] = [Idle EXCEPT !.pc = "think",
                                                !.input = userInput,
                                                !.base = Len(state.messages),
                                                !.thinks = 1]]
     /\ UNCHANGED <<variant, requested, regVars, spawnVars, llm, auxVars>>

\* think() has returned or thrown; execute() runs to its next await or ends
Agent_thinkReturns(p) ==
  /\ variant = "Agent"
  /\ proc[p].pc = "think"
  /\ IF proc[p].input = NotAString
     THEN LET c == Agent_catch(state, [proc[p] EXCEPT !.thrownBy = "think"], TypeError)
          IN Installed(p, [state |-> c.state, memory |-> memory, proc |-> c.proc])
     ELSE LET response == think(proc[p].input)
              pr == [proc[p] EXCEPT !.response = response]
          IN IF Len(response.toolCalls) > 0
             THEN Installed(p, [state |-> [state EXCEPT !.status = "executing_tool"],
                                memory |-> memory,
                                proc |-> dispatch(pr, tools, 1)])
             ELSE Installed(p, Agent_complete(state, memory, pr, turns))
  /\ requested' = requested + (IF proc[p].input = NotAString THEN 0
                               ELSE Len(think(proc[p].input).toolCalls))
  /\ UNCHANGED <<variant, turns, regVars, spawnVars, llm, auxVars>>

\* executeTools: the awaited executeTool call settles; the loop body runs and
\* the next call is dispatched, or executeTools returns and execute() ends
Agent_toolSettles(p) ==
  /\ variant = "Agent"
  /\ proc[p].pc = "tool"
  /\ \E outcome \in OutcomesFor(proc[p]) :
       LET a == awaited(proc[p], outcome)
       IN IF a.settled = "rejected"
          THEN LET c == Agent_catch(state, [proc[p] EXCEPT !.log = Append(@, <<"reject", proc[p].i>>),
                                                           !.thrownBy = "executeTool"],
                                    TypeError)
               IN Installed(p, [state |-> c.state, memory |-> memory, proc |-> c.proc])
          ELSE LET r == recordResult(state, memory, proc[p], a.result)
               IN IF hasNext(proc[p], a.result)
                  THEN Installed(p, [r EXCEPT !.proc = dispatch(r.proc, tools, proc[p].i + 1)])
                  ELSE Installed(p, Agent_complete(r.state, r.memory, r.proc, turns))
  /\ UNCHANGED <<variant, turns, requested, regVars, spawnVars, llm, auxVars>>

(***************************************************************************)
(* ClaudeAgent (generative variant)                                        *)
(***************************************************************************)
\* execute() up to `await this.claudeProvider.think(...)`
ClaudeAgent_executeSerialized(p, userInput) ==
  LET userMessage == Message("user", userInput)
  IN /\ variant = "ClaudeAgent"
     /\ \A q \in DOMAIN proc : proc[q].pc \in {"idle", "done"}
     /\ turns < MaxTurns
     /\ turns' = turns + 1
     /\ memory' = addMessage(memory, userMessage)
     /\ state' = [state EXCEPT !.messages = Append(@, userMessage),
                               !.status = "thinking",
                               !.currentTask = userInput,
                               !.iterations = @ + 1]
     /\ proc' = [proc EXCEPT ![p] = [Idle EXCEPT !.pc = "think",
                                                !.input = userInput,
                                                !.base = Len(state.messages),
                                                !.handed = Append(state.messages, userMessage),
                                                !.outbound = claudeMessages(Append(state.messages, userMessage),
                                                                            userInput),
                                                !.thinks = 1]]
     /\ UNCHANGED <<variant, requested, regVars, spawnVars, llm, auxVars>>

ClaudeAgent_execute(p, userInput) ==
  LET userMessage == Message("user", userInput)
  IN /\ variant = "ClaudeAgent"
     /\ proc[p].pc \in {"idle", "done"}
     /\ turns < MaxTurns
     /\ turns' = turns + 1
     /\ memory' = addMessage(memory, userMessage)
     /\ state' = [state EXCEPT !.messages = Append(@, userMessage),
                               !.status = "thinking",
                               !.currentTask = userInput,
                               !.iterations = @ + 1]
     /\ proc' = [proc EXCEPT ![p] = [Idle EXCEPT !.pc = "think",
                                                !.input = userInput,
                                                !.base = Len(state.messages),
                                                !.handed = Append(state.messages, userMessage),
                                                !.outbound = claudeMessages(Append(state.messages, userMessage),
                                                                            userInput),
                                                !.thinks = 1]]
     /\ UNCHANGED <<variant, requested, regVars, spawnVars, llm, auxVars>>

ClaudeAgent_thinkReturns(p) ==
  /\ variant = "ClaudeAgent"
  /\ proc[p].pc = "think"
  /\ \E o \in ThinkOutcomes(MaxCalls - requested) :
       IF o.kind = "reject"
       THEN LET c == ClaudeAgent_catch(state, [proc[p] EXCEPT !.thrownBy = "think"], TypeError)
            IN Installed(p, [state |-> c.state, memory |-> memory, proc |-> c.proc])
       ELSE LET pr == [proc[p] EXCEPT !.response = o.decision, !.decision = o.decision]
            IN IF Len(o.decision.toolCalls) > 0
               THEN Installed(p, [state |-> [state EXCEPT !.status = "executing_tool"],
                                  memory |-> memory,
                                  proc |-> dispatch(pr, tools, 1)])
               ELSE Installed(p, ClaudeAgent_complete(state, memory, pr, turns))
  /\ requested' = requested + Len(proc'[p].response.toolCalls)
  /\ UNCHANGED <<variant, turns, regVars, spawnVars, llm, auxVars>>

\* executeTools: as in Agent; after the last call generateSummary calls
\* claudeProvider.think and execute() is suspended on it
ClaudeAgent_toolSettles(p) ==
  /\ variant = "ClaudeAgent"
  /\ proc[p].pc = "tool"
  /\ \E outcome \in OutcomesFor(proc[p]) :
       LET a == awaited(proc[p], outcome)
       IN IF a.settled = "rejected"
          THEN LET c == ClaudeAgent_catch(state, [proc[p] EXCEPT !.log = Append(@, <<"reject", proc[p].i>>),
                                                                 !.thrownBy = "executeTool"],
                                          TypeError)
               IN Installed(p, [state |-> c.state, memory |-> memory, proc |-> c.proc])
          ELSE LET r == recordResult(state, memory, proc[p], a.result)
               IN IF hasNext(proc[p], a.result)
                  THEN Installed(p, [r EXCEPT !.proc = dispatch(r.proc, tools, proc[p].i + 1)])
                  ELSE Installed(p, [r EXCEPT !.proc = [r.proc EXCEPT !.pc = "summary",
                                                                     !.thinks = @ + 1]])
  /\ UNCHANGED <<variant, turns, requested, regVars, spawnVars, llm, auxVars>>

\* generateSummary returns the summary Decision, or the original response
\* from its catch block; execute() takes its message and finishes
ClaudeAgent_summaryReplaces(p) ==
  /\ variant = "ClaudeAgent"
  /\ proc[p].pc = "summary"
  /\ \E o \in SummaryOutcomes :
       LET summaryResponse == IF o.kind = "reject" THEN proc[p].response ELSE o.decision
           pr == [proc[p] EXCEPT !.response = summaryResponse,
                                 !.summary = o]
       IN Installed(p, ClaudeAgent_complete(state, memory, pr, turns))
  /\ UNCHANGED <<variant, turns, requested, regVars, spawnVars, llm, auxVars>>

ClaudeAgent_summaryReturns(p) ==
  /\ variant = "ClaudeAgent"
  /\ proc[p].pc = "summary"
  /\ \E o \in SummaryOutcomes :
       LET summaryResponse == IF o.kind = "reject" THEN proc[p].response ELSE o.decision
           pr == [proc[p] EXCEPT !.response.message = summaryResponse.message,
                                 !.summary = o]
       IN Installed(p, ClaudeAgent_complete(state, memory, pr, turns))
  /\ UNCHANGED <<variant, turns, requested, regVars, spawnVars, llm, auxVars>>

(***************************************************************************)
(* Specifications                                                          *)
(***************************************************************************)
NewState ==
  [status |-> "idle", iterations |-> 0, messages |-> <<>>, endTime |-> 0,
   currentTask |-> <<>>]

NewMemory == [workingMemory |-> <<>>, conversationHistory |-> <<>>]

\* the inputs the agents are run on: for Agent one input per rule of
\* think(), with and without text after the keyword, and a value that is not
\* a string; ClaudeAgent hands its input to the model unread
UserInputs ==
  IF variant = "Agent"
  THEN {<<"hello">>, <<"calculate">>, <<"calculate", "2+2">>, <<"lire", "notes">>,
        <<"list", "calculate">>, <<"time">>, NotAString}
  ELSE {<<"hello">>}

(***************************************************************************)
(* spawnSubagent                                                           *)
(***************************************************************************)
DefaultMaxSubagents == 5

\* AgentConfig.maxSubagents?: number
Unset == [defined |-> FALSE, value |-> 0]
Limit(n) == [defined |-> TRUE, value |-> n]

\* AgentConfig.canSpawnSubagents?: boolean and maxSubagents?: number
Configs ==
  [canSpawnSubagents : {"true", "false", "unset"},
   maxSubagents : {Unset} \cup {Limit(n) : n \in 0..2},
   tools : {ConfigTools}, maxIterations : {Unset}, persistToDisk : {FALSE}]

\* a configuration that sets none of the optional fields
DefaultConfig ==
  [canSpawnSubagents |-> "unset", maxSubagents |-> Unset, tools |-> ConfigTools,
   maxIterations |-> Unset, persistToDisk |-> FALSE]

\* `this.state.config.maxSubagents || 5`
maxSubagents(cfg) ==
  IF cfg.maxSubagents.defined /\ cfg.maxSubagents.value # 0
  THEN cfg.maxSubagents.value
  ELSE DefaultMaxSubagents

NoError == [kind |-> "none", max |-> 0]
NotAllowed == [kind |-> "not allowed to spawn subagents", max |-> 0]
MaximumReached(n) == [kind |-> "maximum number of subagents reached", max |-> n]

\* the two guards at the head of spawnSubagent: the Error thrown, or NoError
spawnChecksOnlyFalse(cfg, subs) ==
  IF cfg.canSpawnSubagents = "false" THEN NotAllowed
  ELSE IF Cardinality(DOMAIN subs) >= maxSubagents(cfg)
       THEN MaximumReached(maxSubagents(cfg))
       ELSE NoError

spawnChecks(cfg, subs) ==
  IF cfg.canSpawnSubagents # "true" THEN NotAllowed
  ELSE IF Cardinality(DOMAIN subs) >= maxSubagents(cfg)
       THEN MaximumReached(maxSubagents(cfg))
       ELSE NoError

\* randomUUID() for the n-th agent constructed; the session id the parent
\* hands to its children
AgentId(n) == <<"agent", n>>
SessionId == <<"session", 0>>

\* the constructor followed by execute() up to its first await
startTurn(v, task) ==
  LET userMessage == Message("user", task)
  IN [state |-> [NewState EXCEPT !.messages = <<userMessage>>,
                                 !.status = "thinking",
                                 !.currentTask = task,
                                 !.iterations = IF v = "ClaudeAgent" THEN 1 ELSE 0],
      memory |-> addMessage(NewMemory, userMessage),
      proc |-> [Idle EXCEPT !.pc = "think", !.input = task, !.thinks = 1,
                            !.handed = IF v = "ClaudeAgent" THEN <<userMessage>> ELSE <<>>,
                            !.outbound = IF v = "ClaudeAgent"
                                         THEN claudeMessages(<<userMessage>>, task)
                                         ELSE <<>>]]

\* the catch block of execute() in class v
catch(v, a, pr, message) ==
  LET c == IF v = "Agent" THEN Agent_catch(a.state, pr, message)
           ELSE ClaudeAgent_catch(a.state, pr, message)
  IN [state |-> c.state, memory |-> a.memory, proc |-> c.proc]

\* what a child is asked and what its collaborators answer during its turn
Script(task, th, outcomes, summary) ==
  [task |-> task, think |-> th, outcomes |-> outcomes, summary |-> summary]

ChildScripts ==
  IF variant = "Agent"
  THEN {Script(<<"hello">>, Rejected, <<>>, Rejected),
        Script(<<"time">>, Rejected, <<Returns(Success)>>, Rejected),
        Script(<<"time">>, Rejected, <<ThrowsNullish>>, Rejected)}
  ELSE {Script(<<"hello">>, Decided(Response(<<"plan">>, <<>>, "complete")), <<>>, Rejected),
        Script(<<"hello">>,
               Decided(Response(<<"plan">>,
                                <<ToolCall("calculator", Given([n \in {"expression"} |-> "good"]))>>,
                                "continue")),
               <<Returns(Success)>>,
               Decided(Response(<<"summary">>, <<>>, "complete"))),
        Script(<<"hello">>,
               Decided(Response(<<"plan">>, <<ToolCall("calculator", Absent)>>, "complete")),
               <<Returns(Success)>>, Rejected)}

\* executeTools from call i on, then the rest of execute(), in class v
RECURSIVE runTools(_, _, _, _, _)
runTools(v, ts, a, i, script) ==
  LET pr == dispatch(a.proc, ts, i)
      w == awaited(pr, script.outcomes[i])
  IN IF w.settled = "rejected"
     THEN catch(v, a, [pr EXCEPT !.log = Append(@, <<"reject", i>>),
                                 !.thrownBy = "executeTool"], TypeError)
     ELSE LET r == recordResult(a.state, a.memory, pr, w.result)
          IN IF hasNext(pr, w.result)
             THEN runTools(v, ts, r, i + 1, script)
             ELSE IF v = "Agent"
                  THEN Agent_complete(r.state, r.memory, r.proc, 1)
                  ELSE LET summaryResponse == IF script.summary.kind = "reject"
                                              THEN r.proc.response
                                              ELSE script.summary.decision
                           pr2 == [r.proc EXCEPT !.response.message = summaryResponse.message,
                                                 !.summary = script.summary,
                                                 !.thinks = @ + 1]
                       IN ClaudeAgent_complete(r.state, r.memory, pr2, 1)

\* execute() of a newly constructed agent of class v, from its first await
\* to its end
runTurn(v, ts, a, script) ==
  LET threw == IF v = "Agent" THEN script.task = NotAString
               ELSE script.think.kind = "reject"
      response == IF v = "Agent" THEN think(script.task) ELSE script.think.decision
      pr == [a.proc EXCEPT !.response = response, !.decision = response]
  IN IF threw
     THEN catch(v, a, [a.proc EXCEPT !.thrownBy = "think"], TypeError)
     ELSE IF Len(response.toolCalls) > 0
          THEN runTools(v, ts, [a EXCEPT !.state.status = "executing_tool", !.proc = pr],
                        1, script)
          ELSE IF v = "Agent"
               THEN Agent_complete(a.state, a.memory, pr, 1)
               ELSE ClaudeAgent_complete(a.state, a.memory, pr, 1)

Spawns == {1}

NoSpawn ==
  [pc |-> "idle", error |-> NoError, child |-> [id |-> AgentId(0)],
   result |-> NoResponse, before |-> <<>>, createdBefore |-> 0, settled |-> "none"]

\* getState(): a copy of the child's state under its id
snapshot(child) ==
  [id |-> child.id, status |-> child.agent.state.status,
   iterations |-> child.agent.state.iterations,
   messages |-> child.agent.state.messages]

\* `this.state.subagents.set(subagent.state.id, subagent.getState())`
setSubagentBySession(subs, child) == MapSet(subs, child.sessionId, snapshot(child))

setSubagent(subs, child) == MapSet(subs, child.id, snapshot(child))

\* `new MemoryManager(session, path)` in the child's constructor makes an
\* instance of its own: the parent's instance after the child's turn
parentMemoryShared(mem, childMem) ==
  [workingMemory |-> childMem.workingMemory,
   conversationHistory |-> mem.conversationHistory \o childMem.conversationHistory]

parentMemory(mem, childMem) == mem

\* spawnSubagent(config, task) up to `await subagent.execute(task)`, or to
\* the throw of one of its guards
spawnSubagent(s, script) ==
  LET e == spawnChecks(config, subagents)
      call == [NoSpawn EXCEPT !.before = subagents, !.createdBefore = created]
      child == [id |-> AgentId(created + 1), sessionId |-> SessionId,
                script |-> script, agent |-> startTurn(variant, script.task)]
  IN /\ spawn[s].pc \in {"idle", "done"}
     /\ IF e # NoError
        THEN /\ spawn' = [spawn EXCEPT ![s] = [call EXCEPT !.pc = "done", !.error = e,
                                                           !.settled = "rejected"]]
             /\ UNCHANGED created
        ELSE /\ created < MaxSpawns
             /\ created' = created + 1
             /\ spawn' = [spawn EXCEPT ![s] = [call EXCEPT !.pc = "child", !.child = child]]
     /\ UNCHANGED <<agentVars, regVars, config, subagents, llm, auxVars>>

\* the child's execute() has run to its end; spawnSubagent stores the
\* child's state and returns the child's response
spawnSubagent_childReturns(s) ==
  /\ spawn[s].pc = "child"
  /\ LET c == spawn[s].child
         done == [c EXCEPT !.agent = runTurn(variant, tools, c.agent, c.script)]
     IN /\ subagents' = setSubagent(subagents, done)
        /\ memory' = parentMemory(memory, done.agent.memory)
        /\ spawn' = [spawn EXCEPT ![s] = [@ EXCEPT !.pc = "done", !.child = done,
                                                   !.settled = done.agent.proc.settled,
                                                   !.result = done.agent.proc.returned]]
  /\ UNCHANGED <<variant, state, proc, turns, requested, regVars, config, created, llm, auxVars>>

(***************************************************************************)
(* ClaudeProvider                                                          *)
(*                                                                         *)
(* At the provider a text is a sequence of segments: a run of prose        *)
(* without braces, a lone opening or closing brace, a braced run that is   *)
(* not JSON, or the JSON text of an object.                                *)
(***************************************************************************)
\* the value JSON.parse yields for "{}"
EmptyObject ==
  [message |-> <<>>, toolCalls |-> [isArray |-> FALSE, items |-> <<>>],
   nextAction |-> ""]

Prose(t) == [kind |-> "prose", text |-> t, value |-> EmptyObject]
OpenBrace == [kind |-> "open", text |-> "{", value |-> EmptyObject]
CloseBrace == [kind |-> "close", text |-> "}", value |-> EmptyObject]
Braced == [kind |-> "braced", text |-> "{docs}", value |-> EmptyObject]
Object(o) == [kind |-> "object", text |-> "", value |-> o]

\* the objects a reply can hold: message absent (or empty) or present,
\* toolCalls absent (or not an array) or an array, nextAction absent, one
\* of the enum or another string
Objects ==
  [message : {<<>>, <<Prose("hi")>>},
   toolCalls : {[isArray |-> FALSE, items |-> <<>>],
                [isArray |-> TRUE, items |-> <<>>],
                [isArray |-> TRUE,
                 items |-> <<ToolCall("calculator", Given([n \in {"expression"} |-> "good"]))>>]},
   nextAction : {"", "continue", "bogus"}]

Segments == {Prose("text"), OpenBrace, CloseBrace, Braced} \cup {Object(o) : o \in Objects}

Replies == SeqsUpTo(Segments, MaxSegments)

Max(S) == CHOOSE x \in S : \A y \in S : y <= x

\* the Decision returned when no JSON is found or JSON.parse throws
RawDecisionContinue(responseText) ==
  [message |-> responseText, toolCalls |-> <<>>, hasToolCalls |-> FALSE,
   nextAction |-> "continue"]

RawDecision(responseText) ==
  [message |-> responseText, toolCalls |-> <<>>, hasToolCalls |-> FALSE,
   nextAction |-> "complete"]

\* `responseText.match(/\{[\s\S]*\}/)`: from the first opening brace to the
\* last closing brace, or no match
jsonMatch(responseText) ==
  LET opens == {i \in 1..Len(responseText) :
                  responseText[i].kind \in {"open", "braced", "object"}}
      closes == {j \in 1..Len(responseText) :
                   responseText[j].kind \in {"close", "braced", "object"}}
  IN IF \E i \in opens, j \in closes : i <= j
     THEN [found |-> TRUE,
           text |-> SubSeq(responseText,
                           CHOOSE i \in opens : \A k \in opens : i <= k,
                           Max(closes))]
     ELSE [found |-> FALSE, text |-> <<>>]

\* JSON.parse of a matched text: it succeeds on the text of one object
parses(text) == Len(text) = 1 /\ text[1].kind = "object"

\* parseClaudeResponse: the fields of the parsed object, with their defaults
parseClaudeResponse(responseText) ==
  LET m == jsonMatch(responseText)
  IN IF ~m.found
     THEN RawDecision(responseText)
     ELSE IF ~parses(m.text)
          THEN RawDecision(responseText)
          ELSE LET parsed == m.text[1].value
               IN [message |-> IF parsed.message # <<>> THEN parsed.message ELSE responseText,
                   toolCalls |-> IF parsed.toolCalls.isArray THEN parsed.toolCalls.items ELSE <<>>,
                   hasToolCalls |-> TRUE,
                   nextAction |-> IF parsed.nextAction # "" THEN parsed.nextAction ELSE "complete"]

\* what `await this.anthropic.messages.create(...)` produces: an Error of
\* the client, or a response whose content is a list of blocks
Fails(cause) == [kind |-> "error", cause |-> cause, content |-> <<>>]
Block(type, text) == [type |-> type, text |-> text]
Replied(content) == [kind |-> "response", cause |-> "", content |-> content]

TransportOutcomes ==
  {Fails(c) : c \in {"timeout", "authentication", "rate limit"}}
  \cup {Replied(<<>>), Replied(<<Block("tool_use", <<>>)>>)}
  \cup {Replied(<<Block("text", r)>>) : r \in Replies}

\* the Decision returned from the catch block of think
ErrorDecision(cause) ==
  [message |-> <<Prose("Erreur Claude:"), Prose(cause)>>, toolCalls |-> <<>>,
   hasToolCalls |-> FALSE, nextAction |-> "complete"]

\* ClaudeProvider.think from the settling of messages.create on
ClaudeProvider_thinkUncaught(t) ==
  IF t.kind = "error"
  THEN [settled |-> "rejected", decision |-> ErrorDecision(t.cause)]
  ELSE IF t.content = <<>>
       THEN [settled |-> "resolved", decision |-> ErrorDecision("TypeError")]
       ELSE IF t.content[1].type # "text"
            THEN [settled |-> "resolved",
                  decision |-> ErrorDecision("Unexpected response type from Claude")]
            ELSE [settled |-> "resolved",
                  decision |-> parseClaudeResponse(t.content[1].text)]

ClaudeProvider_think(t) ==
  IF t.kind = "error"
  THEN [settled |-> "resolved", decision |-> ErrorDecision(t.cause)]
  ELSE IF t.content = <<>>
       THEN [settled |-> "resolved", decision |-> ErrorDecision("TypeError")]
       ELSE IF t.content[1].type # "text"
            THEN [settled |-> "resolved",
                  decision |-> ErrorDecision("Unexpected response type from Claude")]
            ELSE [settled |-> "resolved",
                  decision |-> parseClaudeResponse(t.content[1].text)]

\* a think call suspended on messages.create, which will settle as t
Awaiting(t) ==
  [op |-> "await", transport |-> t, settled |-> "none", decision |-> RawDecision(<<>>)]

\* messages.create settles and think runs to its end
Think ==
  /\ llm.op = "await"
  /\ LET r == ClaudeProvider_think(llm.transport)
     IN llm' = [llm EXCEPT !.op = "think", !.settled = r.settled,
                           !.decision = r.decision]
  /\ UNCHANGED <<agentVars, regVars, spawnVars, auxVars>>

\* a registry under construction and use; the agent is never run
InitRegistry ==
  /\ tools = <<>>
  /\ last = [op |-> "new"]
  /\ variant = "Agent"
  /\ state = NewState
  /\ memory = NewMemory
  /\ proc = [p \in Procs |-> Idle]
  /\ turns = 0
  /\ requested = 0
  /\ config = DefaultConfig
  /\ subagents = <<>>
  /\ spawn = [s \in Spawns |-> NoSpawn]
  /\ created = 0
  /\ llm = [op |-> "new"]
  /\ thought = [op |-> "new"]
  /\ disk = NoFile
  /\ loaded = NotLoaded

NextRegistry == Register \/ RegisterMultiple \/ Unregister \/ ExecuteTool

SpecRegistry == InitRegistry /\ [][NextRegistry]_vars

\* one agent of either class over a populated registry, its execute() calls
\* awaited one after the other by the caller
Init ==
  /\ tools = AgentRegistry
  /\ last = [op |-> "new"]
  /\ variant \in {"Agent", "ClaudeAgent"}
  /\ state = NewState
  /\ memory = NewMemory
  /\ proc = [p \in Procs |-> Idle]
  /\ turns = 0
  /\ requested = 0
  /\ config = DefaultConfig
  /\ subagents = <<>>
  /\ spawn = [s \in Spawns |-> NoSpawn]
  /\ created = 0
  /\ llm = [op |-> "new"]
  /\ thought = [op |-> "new"]
  /\ disk = NoFile
  /\ loaded = NotLoaded

Next ==
  \/ \E userInput \in UserInputs : Agent_execute(1, userInput)
  \/ Agent_thinkReturns(1)
  \/ Agent_toolSettles(1)
  \/ \E userInput \in UserInputs : ClaudeAgent_execute(1, userInput)
  \/ ClaudeAgent_thinkReturns(1)
  \/ ClaudeAgent_toolSettles(1)
  \/ ClaudeAgent_summaryReturns(1)

Spec == Init /\ [][Next]_vars

\* an awaited reasoning call or capability invocation settles: the calls
\* execute() awaits are taken to return, so its continuation is resumed
AwaitedCallReturns ==
  \/ Agent_thinkReturns(1)
  \/ Agent_toolSettles(1)
  \/ ClaudeAgent_thinkReturns(1)
  \/ ClaudeAgent_toolSettles(1)
  \/ ClaudeAgent_summaryReturns(1)

\* the same agent when every awaited call returns
SpecLive == Spec /\ WF_vars(AwaitedCallReturns)

\* one agent of either class with any configuration of the two delegation
\* fields; the caller awaits each execute() and spawnSubagent() call before
\* making the next, and the parent's model calls ask for no capability
InitSpawn ==
  /\ tools = AgentRegistry
  /\ last = [op |-> "new"]
  /\ variant \in {"Agent", "ClaudeAgent"}
  /\ state = NewState
  /\ memory = NewMemory
  /\ proc = [p \in Procs |-> Idle]
  /\ turns = 0
  /\ requested = MaxCalls
  /\ config \in Configs
  /\ subagents = <<>>
  /\ spawn = [s \in Spawns |-> NoSpawn]
  /\ created = 0
  /\ llm = [op |-> "new"]
  /\ thought = [op |-> "new"]
  /\ disk = NoFile
  /\ loaded = NotLoaded

\* no execute() and no spawnSubagent() call is in flight
Quiet ==
  /\ \A p \in Procs : proc[p].pc \in {"idle", "done"}
  /\ \A s \in Spawns : spawn[s].pc \in {"idle", "done"}

NextSpawn ==
  \/ Quiet /\ Agent_execute(1, <<"time">>)
  \/ Agent_thinkReturns(1)
  \/ Agent_toolSettles(1)
  \/ Quiet /\ ClaudeAgent_execute(1, <<"hello">>)
  \/ ClaudeAgent_thinkReturns(1)
  \/ Quiet /\ \E script \in ChildScripts : spawnSubagent(1, script)
  \/ spawnSubagent_childReturns(1)

SpecSpawn == InitSpawn /\ [][NextSpawn]_vars

\* a think call of a provider, for each way its request can settle
InitProvider ==
  /\ tools = AgentRegistry
  /\ last = [op |-> "new"]
  /\ variant = "ClaudeAgent"
  /\ state = NewState
  /\ memory = NewMemory
  /\ proc = [p \in Procs |-> Idle]
  /\ turns = 0
  /\ requested = 0
  /\ config = DefaultConfig
  /\ subagents = <<>>
  /\ spawn = [s \in Spawns |-> NoSpawn]
  /\ created = 0
  /\ llm \in {Awaiting(t) : t \in TransportOutcomes}
  /\ thought = [op |-> "new"]
  /\ disk = NoFile
  /\ loaded = NotLoaded

NextProvider == Think

SpecProvider == InitProvider /\ [][NextProvider]_vars

(***************************************************************************)
(* Agent.think alone, as a function of the input                           *)
(***************************************************************************)
MaxWords == 2

\* the words an input is made of: the rule keywords and two other words
Words == {"calculate", "calcul", "read file", "lire", "list", "time", "hello", "2+2"}

Inputs == SeqsUpTo(Words, MaxWords)

\* think(input) is called and returns
Agent_think ==
  /\ thought.op = "await"
  /\ thought' = [op |-> "think", input |-> thought.input,
                 response |-> think(thought.input)]
  /\ UNCHANGED <<agentVars, regVars, spawnVars, llm, disk, loaded>>

\* an agent over an empty or a populated registry, about to reason on an input
InitThink ==
  /\ tools \in {<<>>, AgentRegistry}
  /\ last = [op |-> "new"]
  /\ variant = "Agent"
  /\ state = NewState
  /\ memory = NewMemory
  /\ proc = [p \in Procs |-> Idle]
  /\ turns = 0
  /\ requested = 0
  /\ config = DefaultConfig
  /\ subagents = <<>>
  /\ spawn = [s \in Spawns |-> NoSpawn]
  /\ created = 0
  /\ llm = [op |-> "new"]
  /\ thought \in {[op |-> "await", input |-> input] : input \in Inputs}
  /\ disk = NoFile
  /\ loaded = NotLoaded

NextThink == Agent_think

SpecThink == InitThink /\ [][NextThink]_vars

(***************************************************************************)
(* An agent whose configuration restricts it                               *)
(***************************************************************************)
\* a configuration that lists one of the two registered capabilities and
\* sets maxIterations
RestrictedConfig ==
  [DefaultConfig EXCEPT !.tools = <<"get_timestamp">>, !.maxIterations = Limit(1)]

InitLimits ==
  /\ tools = AgentRegistry
  /\ last = [op |-> "new"]
  /\ variant \in {"Agent", "ClaudeAgent"}
  /\ state = NewState
  /\ memory = NewMemory
  /\ proc = [p \in Procs |-> Idle]
  /\ turns = 0
  /\ requested = 0
  /\ config = RestrictedConfig
  /\ subagents = <<>>
  /\ spawn = [s \in Spawns |-> NoSpawn]
  /\ created = 0
  /\ llm = [op |-> "new"]
  /\ thought = [op |-> "new"]
  /\ disk = NoFile
  /\ loaded = NotLoaded

SpecLimits == InitLimits /\ [][Next]_vars

(***************************************************************************)
(* Calls made on one agent without awaiting the one before                 *)
(***************************************************************************)
\* the calls that can be in flight at once
Concurrent == {1, 2}

\* a parent that may delegate, with a quota below the number of children
\* that can be constructed
FanOutConfigs ==
  {[DefaultConfig EXCEPT !.canSpawnSubagents = "true", !.maxSubagents = Limit(n)] :
     n \in 1..2}

\* Promise.all over spawnSubagent calls: no call waits for another
InitFanOut ==
  /\ tools = AgentRegistry
  /\ last = [op |-> "new"]
  /\ variant \in {"Agent", "ClaudeAgent"}
  /\ state = NewState
  /\ memory = NewMemory
  /\ proc = [p \in Procs |-> Idle]
  /\ turns = 0
  /\ requested = MaxCalls
  /\ config \in FanOutConfigs
  /\ subagents = <<>>
  /\ spawn = [s \in Concurrent |-> NoSpawn]
  /\ created = 0
  /\ llm = [op |-> "new"]
  /\ thought = [op |-> "new"]
  /\ disk = NoFile
  /\ loaded = NotLoaded

\* execute() calls made on one ClaudeAgent without awaiting the one before;
\* the replies of the model ask for one capability call in all
InitOverlap ==
  /\ tools = AgentRegistry
  /\ last = [op |-> "new"]
  /\ variant = "ClaudeAgent"
  /\ state = NewState
  /\ memory = NewMemory
  /\ proc = [p \in Concurrent |-> Idle]
  /\ turns = 0
  /\ requested = MaxCalls - 1
  /\ config = DefaultConfig
  /\ subagents = <<>>
  /\ spawn = [s \in Spawns |-> NoSpawn]
  /\ created = 0
  /\ llm = [op |-> "new"]
  /\ thought = [op |-> "new"]
  /\ disk = NoFile
  /\ loaded = NotLoaded

NextOverlap ==
  \/ \E p \in Concurrent : ClaudeAgent_execute(p, <<"hello">>)
  \/ \E p \in Concurrent : ClaudeAgent_thinkReturns(p)
  \/ \E p \in Concurrent : ClaudeAgent_toolSettles(p)
  \/ \E p \in Concurrent : ClaudeAgent_summaryReturns(p)

SpecOverlap == InitOverlap /\ [][NextOverlap]_vars

NextFanOut ==
  \/ \E s \in Concurrent, script \in ChildScripts : spawnSubagent(s, script)
  \/ \E s \in Concurrent : spawnSubagent_childReturns(s)

SpecFanOut == InitFanOut /\ [][NextFanOut]_vars

(***************************************************************************)
(* Persistence of the Session Memory                                       *)
(***************************************************************************)
\* Date.prototype.toISOString, and JSON.stringify of a Date
toISOString(date) == [type |-> "string", iso |-> date.instant]

\* new Date(isoString)
fromISOString(str) == [type |-> "Date", instant |-> str.iso]

\* Array.from(map.entries()): the [key, value] pairs of the map
entries(map) ==
  LET keys == CHOOSE ks \in [1..Cardinality(DOMAIN map) -> DOMAIN map] :
                Range(ks) = DOMAIN map
  IN [i \in 1..Len(keys) |-> <<keys[i], map[keys[i]]>>]

\* new Map(pairs)
fromEntries(pairs) ==
  [k \in {pairs[i][1] : i \in 1..Len(pairs)} |->
     pairs[CHOOSE i \in 1..Len(pairs) :
             pairs[i][1] = k /\ \A j \in (i + 1)..Len(pairs) : pairs[j][1] # k][2]]

\* MemoryManager.persist: the file written for the memory mem; JSON.stringify
\* writes each message's Date as its ISO string.  `source` is the memory
\* persist() was called on; it is not part of the file
persistWorkingMemoryOnly(mem) ==
  [exists |-> TRUE,
   workingMemory |-> entries(mem.workingMemory),
   conversationHistory |-> <<>>,
   timestamp |-> toISOString(Date),
   source |-> mem]

persist(mem) ==
  [exists |-> TRUE,
   workingMemory |-> entries(mem.workingMemory),
   conversationHistory |->
     [i \in 1..Len(mem.conversationHistory) |->
        [mem.conversationHistory[i] EXCEPT !.timestamp = toISOString(@)]],
   timestamp |-> toISOString(Date),
   source |-> mem]

\* MemoryManager.load: the memory a Session Memory holds after reading the
\* file; a missing file gives the empty initial state
load(file) ==
  IF ~file.exists
  THEN NewMemory
  ELSE [workingMemory |-> fromEntries(file.workingMemory),
        conversationHistory |->
          [i \in 1..Len(file.conversationHistory) |->
             [file.conversationHistory[i] EXCEPT !.timestamp = fromISOString(@)]]]

\* no execute() call is in flight: the caller awaits each call
Settled(p) == proc[p].pc \in {"idle", "done"}

\* agent.persist()
Agent_persist(p) ==
  /\ Settled(p)
  /\ disk' = IF config.persistToDisk THEN persist(memory) ELSE disk
  /\ UNCHANGED <<agentVars, regVars, spawnVars, llm, thought, loaded>>

\* `new Agent(config, registry, sessionId)` with the session id of the
\* instance before it, which is dropped
NewInstance(p) ==
  /\ Settled(p)
  /\ state' = NewState
  /\ memory' = NewMemory
  /\ proc' = [proc EXCEPT ![p] = Idle]
  /\ subagents' = <<>>
  /\ loaded' = NotLoaded
  /\ UNCHANGED <<variant, turns, requested, regVars, config, spawn, created, llm,
                 thought, disk>>

\* agent.getMemory().load() (Agent), agent.loadMemory() (ClaudeAgent), on
\* an instance that has not run yet
Agent_load(p) ==
  /\ proc[p].pc = "idle"
  /\ IF variant = "ClaudeAgent" /\ ~config.persistToDisk
     THEN UNCHANGED <<memory, loaded>>
     ELSE /\ memory' = load(disk)
          /\ loaded' = [done |-> TRUE, history |-> load(disk).conversationHistory]
  /\ UNCHANGED <<variant, state, proc, turns, requested, regVars, spawnVars, llm,
                 thought, disk>>

\* one agent of either class, persisted and constructed anew between its
\* execute() calls; the replies of the model ask for no capability
InitPersist ==
  /\ tools = AgentRegistry
  /\ last = [op |-> "new"]
  /\ variant \in {"Agent", "ClaudeAgent"}
  /\ state = NewState
  /\ memory = NewMemory
  /\ proc = [p \in Procs |-> Idle]
  /\ turns = 0
  /\ requested = MaxCalls
  /\ config \in {[DefaultConfig EXCEPT !.persistToDisk = b] : b \in BOOLEAN}
  /\ subagents = <<>>
  /\ spawn = [s \in Spawns |-> NoSpawn]
  /\ created = 0
  /\ llm = [op |-> "new"]
  /\ thought = [op |-> "new"]
  /\ disk = NoFile
  /\ loaded = NotLoaded

\* the inputs of the persisted sessions: one that calls a capability and
\* one that calls none
SessionInputs ==
  IF variant = "Agent" THEN {<<"time">>, <<"hello">>} ELSE {<<"hello">>}

NextPersist ==
  \/ \E userInput \in SessionInputs : Agent_execute(1, userInput)
  \/ Agent_thinkReturns(1)
  \/ Agent_toolSettles(1)
  \/ \E userInput \in SessionInputs : ClaudeAgent_execute(1, userInput)
  \/ ClaudeAgent_thinkReturns(1)
  \/ Agent_persist(1)
  \/ NewInstance(1)
  \/ Agent_load(1)

SpecPersist == InitPersist /\ [][NextPersist]_vars

(***************************************************************************)
(* A registry of capabilities that declare a permission                    *)
(***************************************************************************)
\* Tool.requiresPermission and Tool.permissionLevel, declared on a descriptor
Restricted(desc, level) ==
  [f \in DOMAIN desc \cup {"requiresPermission", "permissionLevel"} |->
     IF f = "requiresPermission" THEN TRUE
     ELSE IF f = "permissionLevel" THEN level
     ELSE desc[f]]

RestrictedDescriptors ==
  {Restricted(desc, "admin") : desc \in {WriteFileTool, PlainTool}}

RestrictedRegistries ==
  UNION {[S -> RestrictedDescriptors] : S \in SUBSET ToolNames}

requiresPermission(ts, toolName) ==
  /\ hasTool(ts, toolName)
  /\ "requiresPermission" \in DOMAIN ts[toolName]
  /\ ts[toolName].requiresPermission

\* registered capabilities that all require a permission; callers hold none
InitPermission ==
  /\ tools \in RestrictedRegistries
  /\ last = [op |-> "new"]
  /\ variant = "Agent"
  /\ state = NewState
  /\ memory = NewMemory
  /\ proc = [p \in Procs |-> Idle]
  /\ turns = 0
  /\ requested = 0
  /\ config = DefaultConfig
  /\ subagents = <<>>
  /\ spawn = [s \in Spawns |-> NoSpawn]
  /\ created = 0
  /\ llm = [op |-> "new"]
  /\ thought = [op |-> "new"]
  /\ disk = NoFile
  /\ loaded = NotLoaded

NextPermission == ExecuteTool

SpecPermission == InitPermission /\ [][NextPermission]_vars

(***************************************************************************)
(* Properties                                                              *)
(***************************************************************************)
\* the messages appended since the execute() call of p began
TurnMessages(p) ==
  SubSeq(state.messages, proc[p].base + 1, Len(state.messages))

TurnHistory(p) ==
  SubSeq(memory.conversationHistory, proc[p].base + 1,
         Len(memory.conversationHistory))

\* the settle events of the log of p, in order
Settles(p) == SelectSeq(proc[p].log, LAMBDA ev : ev[1] = "settle")

IsExecuteToolCall == last.op = "executeTool"

\* C1: the promise returned by execute() is never rejected, whatever the
\* reasoning step and the capabilities do: once execute() has ended it has
\* resolved to a response (Agent and ClaudeAgent).
C1_ExecuteNeverRejects ==
  \A p \in Procs :
    /\ proc[p].settled # "rejected"
    /\ proc[p].pc = "done" =>
         /\ proc[p].settled = "resolved"
         /\ proc[p].returned # NoResponse

\* an execute() call during which an exception was raised has resolved
C1_Witness ==
  \E p \in Procs :
    /\ proc[p].pc = "done"
    /\ proc[p].error # <<>>
    /\ \E k \in 1..Len(proc[p].log) : proc[p].log[k][1] = "reject"
    /\ proc[p].settled = "resolved"

\* C2: executeTool never rejects and always resolves to a result with a
\* boolean success, for every name, every parameters argument (an absent
\* one included) and every capability outcome; for an unregistered name the
\* result has success = FALSE and no execute function is called.
C2_ExecuteToolNeverRejects ==
  IsExecuteToolCall =>
    /\ last.settled = "resolved"
    /\ "success" \in DOMAIN last.result
    /\ last.result.success \in BOOLEAN
    /\ ~hasTool(tools, last.toolName) =>
         /\ ~last.result.success
         /\ ~last.executed

\* the required parameters of the called tool that the given record lacks
MissingOf(call) ==
  {tools[call.toolName].parameters[i].name :
     i \in {j \in 1..Len(tools[call.toolName].parameters) :
              /\ tools[call.toolName].parameters[j].required
              /\ tools[call.toolName].parameters[j].name
                   \notin DOMAIN call.parameters.vals}}

\* C3: when the parameters record given to executeTool lacks at least one
\* required parameter, the call resolves to success = FALSE with an error
\* naming every missing required parameter, and execute is not called.
C3_MissingParametersListed ==
  (/\ IsExecuteToolCall
   /\ hasTool(tools, last.toolName)
   /\ last.parameters.present
   /\ MissingOf(last) # {}) =>
    /\ last.settled = "resolved"
    /\ ~last.result.success
    /\ Head(last.result.error) = "Missing required parameters:"
    /\ MissingOf(last) \subseteq Range(Tail(last.result.error))
    /\ ~last.executed

\* a call lacking two required parameters was made
C3_Witness ==
  /\ IsExecuteToolCall
  /\ hasTool(tools, last.toolName)
  /\ last.parameters.present
  /\ Cardinality(MissingOf(last)) = 2
  /\ last.settled = "resolved"

\* the positions, in declaration order, of the parameters whose validator
\* applies to the given record, and those among them that it rejects
Validated(call) ==
  {j \in 1..Len(tools[call.toolName].parameters) :
     /\ tools[call.toolName].parameters[j].schema
     /\ tools[call.toolName].parameters[j].name \in DOMAIN call.parameters.vals}

Invalid(call) ==
  {j \in Validated(call) :
     call.parameters.vals[tools[call.toolName].parameters[j].name] = "bad"}

Min(S) == CHOOSE x \in S : \A y \in S : x <= y

\* C4: once the missing-parameter check has passed, the validators run in
\* declaration order and stop at the first violation: the result names the
\* first invalid parameter, no later validator runs and execute is not
\* called; a call that lacks a required parameter and carries an invalid one
\* fails on the missing parameter with no validator run.
C4_FailFastValidation ==
  (/\ IsExecuteToolCall
   /\ hasTool(tools, last.toolName)
   /\ last.parameters.present) =>
    LET ps == tools[last.toolName].parameters
    IN /\ (MissingOf(last) = {} /\ Invalid(last) # {}) =>
            LET first == Min(Invalid(last))
            IN /\ last.settled = "resolved"
               /\ last.result = InvalidParameter(ps[first].name)
               /\ Range(last.validated)
                    = {ps[j].name : j \in {k \in Validated(last) : k <= first}}
               /\ last.validated[Len(last.validated)] = ps[first].name
               /\ ~last.executed
       /\ (MissingOf(last) # {} /\ Invalid(last) # {}) =>
            /\ Head(last.result.error) = "Missing required parameters:"
            /\ last.validated = <<>>
            /\ ~last.executed

\* a call with two invalid parameters and none missing was made
C4_Witness ==
  /\ IsExecuteToolCall
  /\ hasTool(tools, last.toolName)
  /\ last.parameters.present
  /\ MissingOf(last) = {}
  /\ Cardinality(Invalid(last)) = 2
  /\ Len(last.validated) = 1

\* C5: when lookup and validation pass and execute throws, executeTool
\* resolves to {success: false, error: <the exception message>}; when
\* execute returns, executeTool resolves to exactly the value it returned.
C5_ExceptionMappedToFailure ==
  (IsExecuteToolCall /\ last.executed) =>
    /\ last.settled = "resolved"
    /\ last.outcome.kind = "throw" =>
         last.result = [success |-> FALSE, error |-> last.outcome.message]
    /\ last.outcome.kind = "return" => last.result = last.outcome.value

\* C6: register(tool) with a name already in the registry throws and leaves
\* the registry as it was, whatever the descriptor.
C6_DuplicateRegisterThrows ==
  [][(last'.op = "register" /\ hasTool(tools, last'.tool.name)) =>
       (last'.threw /\ tools' = tools)]_vars

\* a second register of a name, with another descriptor, has thrown
C6_Witness ==
  /\ last.op = "register"
  /\ last.threw
  /\ hasTool(tools, last.tool.name)
  /\ tools[last.tool.name] # last.tool.desc

\* C7: the calls of a Decision are dispatched one at a time in list order:
\* each reaches executeTool at most once, call i+1 is started only after
\* call i has resolved, and a resolved call, failed or not, is followed by
\* the dispatch of the next one.
C7_SequentialDispatch ==
  \A p \in Procs :
    LET log == proc[p].log
        n == Len(proc[p].response.toolCalls)
        At(kind, i) == {k \in 1..Len(log) : log[k][1] = kind /\ log[k][2] = i}
    IN /\ \A k \in 1..Len(log) : log[k][2] \in 1..n
       /\ \A i \in 1..n :
            /\ Cardinality(At("start", i)) <= 1
            /\ Cardinality(At("execute", i)) <= 1
            /\ \A k \in At("start", i) :
                 i > 1 => \E j \in At("settle", i - 1) : j < k
            /\ \A j \in At("settle", i) :
                 i < n => \E k \in At("start", i + 1) : k > j

\* a turn of two calls has ended in which the first call failed and the
\* second was dispatched all the same
C7_Witness ==
  \E p \in Procs :
    /\ proc[p].pc = "done"
    /\ Len(proc[p].response.toolCalls) = 2
    /\ \E j \in 1..Len(proc[p].log) :
         /\ proc[p].log[j][1] = "settle"
         /\ proc[p].log[j][2] = 1
         /\ ~proc[p].log[j][3].success
    /\ \E k \in 1..Len(proc[p].log) : proc[p].log[k] = <<"start", 2>>

\* C8: each resolved call leaves its result in working memory under
\* tool_result_<toolName> and one tool message holding the serialized
\* result in the conversation log, in call order; when a turn calls one
\* capability twice the key holds the later result and the log holds both.
C8_ResultsRecorded ==
  \A p \in Procs :
    proc[p].pc \in {"tool", "summary", "done"} =>
      LET done == Settles(p)
          calls == proc[p].response.toolCalls
          toolMessages == SelectSeq(TurnMessages(p), LAMBDA m : m.role = "tool")
      IN /\ Len(toolMessages) = Len(done)
         /\ \A k \in 1..Len(done) :
              /\ TurnMessages(p)[1 + k] = Message("tool", Serialize(done[k][3]))
              /\ TurnHistory(p)[1 + k] = Message("tool", Serialize(done[k][3]))
              /\ ResultKey(calls[done[k][2]].toolName) \in DOMAIN memory.workingMemory
              /\ (\A j \in (k + 1)..Len(done) :
                    calls[done[j][2]].toolName # calls[done[k][2]].toolName)
                 => memory.workingMemory[ResultKey(calls[done[k][2]].toolName)]
                      = done[k][3]

\* a turn has called one capability twice with different results
C8_Witness ==
  \E p \in Procs :
    /\ proc[p].pc = "done"
    /\ Len(Settles(p)) = 2
    /\ proc[p].response.toolCalls[1].toolName = proc[p].response.toolCalls[2].toolName
    /\ Settles(p)[1][3] # Settles(p)[2][3]

\* C9: every execute() call that does not end in status Error appends
\* exactly one assistant message, after the user message and the tool
\* messages of the turn, whose content is the message of the returned
\* response; status is Completed and endTime is set (both variants).
C9_AssistantMessageAppended ==
  \A p \in Procs :
    (proc[p].pc = "done" /\ state.status # "error") =>
      LET turn == TurnMessages(p)
      IN /\ Len(SelectSeq(turn, LAMBDA m : m.role = "assistant")) = 1
         /\ turn[Len(turn)] = Message("assistant", proc[p].returned.message)
         /\ state.status = "completed"
         /\ state.endTime # 0

\* C10: every execute() call appends one user message and increases
\* iterationCount by exactly one, for both variants, whether the turn ends
\* Completed or Error.
C10_IterationCounted ==
  /\ state.iterations = turns
  /\ Len(SelectSeq(state.messages, LAMBDA m : m.role = "user")) = turns

\* the turn of p ended in the catch block because the reasoning step threw
ReasoningThrew(p) == proc[p].pc = "done" /\ proc[p].thrownBy = "think"

ErrorPrefix == IF variant = "Agent" THEN <<"Error:">> ELSE <<"Erreur:">>

C12_SummaryFailureFallsBack ==
  \A p \in Procs :
    (proc[p].pc = "done" /\ proc[p].summary = Decided(ProviderFailure)) =>
      /\ proc[p].returned.message = proc[p].decision.message
      /\ state.messages[Len(state.messages)]
           = Message("assistant", proc[p].decision.message)

\* AgentStatus edges taken by execute() and executeTools()
StatusEdges ==
  {<<"idle", "thinking">>,
   <<"thinking", "executing_tool">>, <<"thinking", "completed">>,
   <<"thinking", "error">>,
   <<"executing_tool", "completed">>, <<"executing_tool", "error">>,
   <<"completed", "thinking">>, <<"error", "thinking">>}

Size(subs) == Cardinality(DOMAIN subs)

\* C14: in every state reachable through sequentially awaited
\* spawnSubagent calls the parent's subagent map has at most
\* configuration.maxSubagents entries, for every configured value of
\* maxSubagents including 0.
C14_SubagentsWithinLimit ==
  config.maxSubagents.defined => Size(subagents) <= config.maxSubagents.value

\* C15: when the parent's subagent map already holds maxSubagents entries,
\* spawnSubagent throws the quota error, constructs and runs no child and
\* leaves the subagent map unchanged.
C15_QuotaErrorAtLimit ==
  \A s \in Spawns :
    (/\ spawn[s].pc # "idle"
     /\ config.canSpawnSubagents = "true"
     /\ config.maxSubagents.defined
     /\ Size(spawn[s].before) = config.maxSubagents.value) =>
      /\ spawn[s].pc = "done"
      /\ spawn[s].settled = "rejected"
      /\ spawn[s].error = MaximumReached(config.maxSubagents.value)
      /\ created = spawn[s].createdBefore
      /\ subagents = spawn[s].before

\* C16: spawnSubagent on a parent whose configuration has
\* canSpawnSubagents false or unset throws the permission error whatever
\* the quota, constructs and runs no child and leaves the parent's subagent
\* map unchanged.
C16_PermissionErrorFirst ==
  \A s \in Spawns :
    (spawn[s].pc # "idle" /\ config.canSpawnSubagents # "true") =>
      /\ spawn[s].pc = "done"
      /\ spawn[s].settled = "rejected"
      /\ spawn[s].error = NotAllowed
      /\ spawn[s].child = NoSpawn.child
      /\ created = spawn[s].createdBefore
      /\ subagents = spawn[s].before

\* spawnSubagent has thrown on a parent that leaves canSpawnSubagents unset
\* and sets maxSubagents to 0
C16_Witness ==
  \E s \in Spawns :
    /\ spawn[s].pc = "done"
    /\ spawn[s].settled = "rejected"
    /\ config = [DefaultConfig EXCEPT !.maxSubagents = Limit(0)]

\* C17: when both checks pass, spawnSubagent runs the child's execute(task)
\* to completion and then adds exactly one entry to the parent's subagent
\* map, keyed by the child's id, whose status is Completed or Error, and
\* returns the child's response; it throws to its caller only for the
\* permission and quota conditions, never because the child's turn failed.
C17_ChildRunAndRecorded ==
  \A s \in Spawns :
    spawn[s].pc = "done" =>
      LET call == spawn[s]
          id == call.child.id
      IN IF /\ config.canSpawnSubagents = "true"
            /\ Size(call.before) < maxSubagents(config)
         THEN /\ call.settled = "resolved"
              /\ call.child.agent.proc.pc = "done"
              /\ call.result = call.child.agent.proc.returned
              /\ id \notin DOMAIN call.before
              /\ DOMAIN subagents = DOMAIN call.before \cup {id}
              /\ \A k \in DOMAIN call.before : subagents[k] = call.before[k]
              /\ subagents[id].id = id
              /\ subagents[id].status = call.child.agent.state.status
              /\ subagents[id].status \in {"completed", "error"}
         ELSE /\ call.settled = "rejected"
              /\ call.error \in {NotAllowed, MaximumReached(maxSubagents(config))}
              /\ subagents = call.before

\* a second child has been recorded whose turn ended in status Error
C17_Witness ==
  \E s \in Spawns :
    /\ spawn[s].pc = "done"
    /\ spawn[s].settled = "resolved"
    /\ Size(subagents) = 2
    /\ subagents[spawn[s].child.id].status = "error"

\* C18: spawnSubagent leaves the parent's working memory, conversation
\* log, status and iterationCount unchanged: the child's turn writes only
\* to the child's own memory and state.
C18_ParentUntouched ==
  [][spawn' # spawn => (state' = state /\ memory' = memory)]_vars

\* a child that called a capability has returned to a parent that had
\* called one itself; each has its own record of its own turn
C18_Witness ==
  \E s \in Spawns :
    /\ spawn[s].pc = "done"
    /\ spawn[s].settled = "resolved"
    /\ state.status = "completed"
    /\ memory.workingMemory # <<>>
    /\ spawn[s].child.agent.memory.workingMemory # <<>>
    /\ spawn[s].child.agent.memory # memory
    /\ spawn[s].child.agent.state.messages # state.messages

\* the text reply of the last think call, when the call produced one
HasTextReply ==
  /\ llm.op = "think"
  /\ llm.transport.kind = "response"
  /\ llm.transport.content # <<>>
  /\ llm.transport.content[1].type = "text"

Reply == llm.transport.content[1].text

\* C19: ClaudeProvider.think never rejects: every transport failure, an
\* empty or non-text reply and every malformed reply yields a Decision with
\* nextAction complete and no capability calls, whose message carries the
\* error text (after "Erreur Claude:") or the raw reply.
C19_ThinkNeverRejects ==
  llm.op = "think" =>
    /\ llm.settled = "resolved"
    /\ llm.transport.kind = "error" =>
         /\ llm.decision.nextAction = "complete"
         /\ llm.decision.toolCalls = <<>>
         /\ llm.decision.message = <<Prose("Erreur Claude:"), Prose(llm.transport.cause)>>
    /\ (llm.transport.kind = "response" /\ ~HasTextReply) =>
         /\ llm.decision.nextAction = "complete"
         /\ llm.decision.toolCalls = <<>>
         /\ Len(llm.decision.message) = 2
         /\ llm.decision.message[1] = Prose("Erreur Claude:")
    /\ (HasTextReply /\ \A i \in 1..Len(Reply) : Reply[i].kind # "object") =>
         /\ llm.decision.nextAction = "complete"
         /\ llm.decision.toolCalls = <<>>
         /\ llm.decision.message = Reply

\* the request of a think call has timed out
C19_Witness ==
  /\ llm.op = "think"
  /\ llm.transport = Fails("timeout")
  /\ llm.settled = "resolved"

\* C20: when the reply is not itself a JSON object but contains one, the
\* parser decodes the first balanced JSON object substring: a reply holding
\* a valid contract object followed by further text that contains a closing
\* brace (or by a second object) yields the Decision of that first object,
\* not the raw-text fallback.
C20_FirstObjectDecoded ==
  HasTextReply =>
    \A k \in 1..Len(Reply) :
      (/\ Reply[k].kind = "object"
       /\ \A i \in 1..(k - 1) : Reply[i].kind = "prose"
       /\ Len(Reply) > 1) =>
        LET o == Reply[k].value
        IN /\ llm.decision.hasToolCalls
           /\ llm.decision.message
                = (IF o.message # <<>> THEN o.message ELSE Reply)
           /\ llm.decision.toolCalls
                = (IF o.toolCalls.isArray THEN o.toolCalls.items ELSE <<>>)
           /\ llm.decision.nextAction
                = (IF o.nextAction # "" THEN o.nextAction ELSE "complete")

\* the reply holds the JSON text of object o and, around it, prose only
DecodesTo(o) ==
  /\ HasTextReply
  /\ \E k \in 1..Len(Reply) :
       /\ Reply[k] = Object(o)
       /\ \A i \in 1..Len(Reply) : i # k => Reply[i].kind = "prose"

\* C21: for every reply that decodes successfully, the Decision's
\* toolCalls is an array (empty when the field is absent or not an array)
\* and its nextAction is one of continue, await_input, spawn_subagent,
\* complete; an unknown or missing nextAction becomes complete.
C21_DecodedFieldsCoerced ==
  \A o \in Objects :
    DecodesTo(o) =>
      /\ llm.op = "think" => llm.decision.hasToolCalls
      /\ llm.op = "think" =>
           llm.decision.toolCalls
             = (IF o.toolCalls.isArray THEN o.toolCalls.items ELSE <<>>)
      /\ llm.op = "think" => llm.decision.nextAction \in DecisionNextActions
      /\ (llm.op = "think" /\ o.nextAction \notin DecisionNextActions) =>
           llm.decision.nextAction = "complete"

FirstRule(input) ==
  LET occurs(k) == \E kw \in Rules[k].keywords : includes(input, kw)
  IN IF \E k \in 1..Len(Rules) : occurs(k)
     THEN CHOOSE k \in 1..Len(Rules) : occurs(k) /\ \A j \in 1..(k - 1) : ~occurs(j)
     ELSE 0

\* the keyword of rule k is followed by more text in the input
HasArgument(input, k) ==
  \E i \in 1..(Len(input) - 1) : input[i] \in Rules[k].keywords

\* C23: Agent.think tries the rules calculate, read file, list, time in
\* that order and only the first rule whose keyword occurs decides: the
\* result has at most one call, that call names the first rule's
\* capability, nextAction is complete, and an input with no keyword gets
\* no call, whatever the registry holds.
C23_FirstRuleDecides ==
  thought.op = "think" =>
    LET r == thought.response
        k == FirstRule(thought.input)
    IN /\ Len(r.toolCalls) <= 1
       /\ r.nextAction = "complete"
       /\ k = 0 => r.toolCalls = <<>>
       /\ k # 0 => \A i \in 1..Len(r.toolCalls) : r.toolCalls[i].toolName = Rules[k].toolName
       /\ (k # 0 /\ (k = 4 \/ HasArgument(thought.input, k))) => Len(r.toolCalls) = 1

C23_Witness ==
  /\ thought.op = "think"
  /\ thought.input = <<"list", "calcul">>
  /\ thought.response.toolCalls = <<>>
  /\ tools = AgentRegistry

\* C30: whenever Agent.think returns no call, its message is the default
\* message listing the capabilities, and it is not empty; "calculate" or
\* "list" alone are such inputs.
C30_NoCallGetsDefaultMessage ==
  (thought.op = "think" /\ thought.response.toolCalls = <<>>) =>
    /\ thought.response.message = DefaultMessage(thought.input)
    /\ thought.response.message # <<>>

\* C26: executeTool does not run a capability declared with
\* requiresPermission true for a caller that does not hold the declared
\* permissionLevel; here no caller holds any permission.
C26_PermissionCheckedBeforeExecution ==
  (last.op = "executeTool" /\ requiresPermission(tools, last.toolName)) => ~last.executed

\* C24: an agent passes a call to a capability's execute function only
\* when the capability is named in configuration.tools; a registered
\* capability that is not listed is never executed.
C24_OnlyConfiguredToolsInvoked ==
  \A p \in Procs : \A e \in Range(proc[p].log) :
    e[1] = "execute" => proc[p].response.toolCalls[e[2]].toolName \in Range(config.tools)

\* C25: after any sequence of execute() calls the iteration count is at
\* most configuration.maxIterations.
C25_IterationsWithinMax ==
  config.maxIterations.defined => state.iterations <= config.maxIterations.value

\* s is a prefix of t
IsPrefix(s, t) == Len(s) <= Len(t) /\ SubSeq(t, 1, Len(s)) = s

\* C27: when a new instance has loaded a persisted conversation history,
\* its next execute() hands that history to the reasoning step.
C27_LoadedHistoryHanded ==
  \A p \in Procs :
    (loaded.done /\ loaded.history # <<>> /\ proc[p].thinks >= 1)
      => IsPrefix(loaded.history, proc[p].handed)

InFlight(p) == proc[p].pc \in {"think", "tool", "summary"}

\* the calls of the turn of p that were handed to the registry so far
Dispatched(p) == {e[2] : e \in {x \in Range(proc[p].log) : x[1] = "start"}}

\* C29: when the calls it awaits return, every execute() call ends, and it
\* ends with status completed or error, never thinking or executing_tool;
\* one execute() makes at most two reasoning calls and dispatches each
\* requested call at most once, so it does not loop whatever nextAction is.
C29_ExecuteTerminates ==
  /\ \A p \in Procs : InFlight(p) ~> (proc[p].pc = "done")
  /\ [](\A p \in Procs :
          /\ proc[p].pc = "done" => state.status \in {"completed", "error"}
          /\ proc[p].thinks <= 2
          /\ Dispatched(p) \subseteq 1..Len(proc[p].response.toolCalls)
          /\ Cardinality({k \in 1..Len(proc[p].log) : proc[p].log[k][1] = "start"})
               = Cardinality(Dispatched(p)))

C29_Witness ==
  /\ variant = "ClaudeAgent"
  /\ proc[1].pc = "done"
  /\ proc[1].thinks = 2
  /\ proc[1].response.nextAction = "continue"
  /\ Cardinality(Dispatched(1)) = 2
  /\ state.status = "completed"

C35_TransportFailureCompletes ==
  \A p \in Procs :
    (variant = "ClaudeAgent" /\ proc[p].pc = "done" /\ proc[p].decision = ProviderFailure) =>
      /\ state.status = "completed"
      /\ proc[p].log = <<>>
      /\ proc[p].thinks = 1
      /\ proc[p].returned = ProviderFailure
      /\ TurnMessages(p) = <<Message("user", proc[p].input),
                             Message("assistant", ProviderFailure.message)>>

C35_Witness ==
  /\ variant = "ClaudeAgent"
  /\ proc[1].pc = "done"
  /\ proc[1].decision = ProviderFailure
  /\ state.status = "completed"
  /\ state.messages[Len(state.messages)].content = <<"Erreur Claude:", "timeout">>

\* C36: the Decision's nextAction does not influence execute(): whatever
\* its value, a turn that does not throw ends completed, makes the
\* reasoning calls and dispatches that its toolCalls alone determine, spawns
\* no subagent, and returns the value unchanged.
C36_NextActionPassedThrough ==
  \A p \in Procs :
    (proc[p].pc = "done" /\ proc[p].thrownBy = "none") =>
      LET calls == proc[p].response.toolCalls
      IN /\ state.status = "completed"
         /\ proc[p].returned.nextAction = proc[p].response.nextAction
         /\ variant = "ClaudeAgent" =>
              proc[p].returned.nextAction = proc[p].decision.nextAction
         /\ proc[p].thinks = IF variant = "ClaudeAgent" /\ Len(calls) > 0 THEN 2 ELSE 1
         /\ Dispatched(p) = 1..Len(calls)
         /\ subagents = <<>>
         /\ created = 0
         /\ \A q \in Procs : proc[q].pc \in {"idle", "done"}

C36_Witness ==
  /\ variant = "ClaudeAgent"
  /\ proc[1].pc = "done"
  /\ proc[1].decision.nextAction = "spawn_subagent"
  /\ proc[1].returned.nextAction = "spawn_subagent"
  /\ Len(proc[1].decision.toolCalls) = 1
  /\ state.status = "completed"

\* C37: a turn that ends in status error leaves what it did before the
\* exception: its user message stays in the log with no assistant message
\* after it, the results recorded before the exception stay in working
\* memory and in the log, no call after the failing one is dispatched, and
\* endTime is not written.
C37_ErrorLeavesPartialState ==
  \A p \in Procs :
    (proc[p].pc = "done" /\ state.status = "error") =>
      LET turn == TurnMessages(p)
          done == Settles(p)
          calls == proc[p].response.toolCalls
      IN /\ turn[1] = Message("user", proc[p].input)
         /\ \A k \in 1..Len(turn) : turn[k].role # "assistant"
         /\ Len(turn) = 1 + Len(done)
         /\ \A k \in 1..Len(done) :
              /\ turn[1 + k] = Message("tool", Serialize(done[k][3]))
              /\ ResultKey(calls[done[k][2]].toolName) \in DOMAIN memory.workingMemory
         /\ Dispatched(p) = 1..proc[p].i
         /\ Len(done) = IF proc[p].thrownBy = "executeTool" THEN proc[p].i - 1 ELSE 0
         /\ state.endTime < turns

C37_Witness ==
  /\ variant = "ClaudeAgent"
  /\ proc[1].pc = "done"
  /\ state.status = "error"
  /\ proc[1].thrownBy = "executeTool"
  /\ proc[1].i = 2
  /\ Len(Settles(1)) = 1
  /\ turns = 2
  /\ state.endTime = 1

\* C33: a stored subagent entry is never modified, replaced or removed by
\* a later execute() or spawnSubagent() on the parent, so the subagent count
\* never decreases; and once the map holds maxSubagents entries every
\* later spawn fails.
C33_SnapshotsImmutable ==
  /\ [][\A id \in DOMAIN subagents :
          id \in DOMAIN subagents' /\ subagents'[id] = subagents[id]]_vars
  /\ [](\A s \in Spawns :
          (/\ spawn[s].pc # "idle"
           /\ config.maxSubagents.defined
           /\ Size(spawn[s].before) >= config.maxSubagents.value) =>
            /\ spawn[s].pc = "done"
            /\ spawn[s].settled = "rejected"
            /\ subagents = spawn[s].before)

\* C38: the history ClaudeAgent.execute hands to the first reasoning call
\* already ends with the current user message, and the provider appends
\* the current input again: the request's message list ends with the
\* current input twice in a row.
C38_InputSentTwice ==
  \A p \in Procs :
    (variant = "ClaudeAgent" /\ proc[p].pc # "idle") =>
      LET out == proc[p].outbound
          n == Len(out)
          turn == [role |-> "user", content |-> proc[p].input]
      IN /\ proc[p].handed[Len(proc[p].handed)] = Message("user", proc[p].input)
         /\ n = Len(proc[p].handed) + 1
         /\ out[n] = turn
         /\ out[n - 1] = turn

C38_Witness ==
  /\ variant = "ClaudeAgent"
  /\ turns = 2
  /\ proc[1].pc = "think"
  /\ Len(proc[1].outbound) >= 5
  /\ \E k \in 1..Len(proc[1].handed) :
       proc[1].handed[k].role = "tool" /\ proc[1].outbound[k].role = "assistant"

\* C31: with several spawnSubagent calls of one parent in flight at once,
\* the parent's subagent map never holds more entries than the limit
\* spawnSubagent enforces.
C31_ConcurrentSpawnsWithinLimit ==
  Size(subagents) <= maxSubagents(config)

\* C32: execute() takes no lock: while one execute() is suspended at a
\* reasoning or capability call, a second execute() on the same agent can
\* start at once; it is neither rejected nor made to wait.
C32_ExecuteNotSerialized ==
  \A p, q \in Concurrent :
    (/\ p # q
     /\ proc[q].pc \in {"think", "tool", "summary"}
     /\ proc[p].pc \in {"idle", "done"}
     /\ turns < MaxTurns) =>
      ENABLED ClaudeAgent_execute(p, <<"hello">>)

\* status is completed while a capability invocation of the other call is
\* in flight, and the log holds the other turn's messages between the
\* messages of the finished turn
C32_Witness ==
  \E p, q \in Concurrent :
    /\ p # q
    /\ proc[q].pc = "tool"
    /\ proc[q].pending.phase = "invoke"
    /\ proc[p].pc = "done"
    /\ state.status = "completed"
    /\ proc[q].base < proc[p].base
    /\ \E i, j, k \in 1..Len(state.messages) :
         /\ i < j /\ j < k
         /\ i = proc[q].base + 1
         /\ j = proc[p].base + 1
         /\ state.messages[i].role = "user"
         /\ state.messages[j].role = "user"
         /\ state.messages[k].role = "assistant"
         /\ Len(Settles(q)) = 0

====
